---- MODULE Spec2Model ----
(***************************************************************************)
(* A model of the QRNG application: the batching loop of qrng.py, the       *)
(* classical generator of classical_rng.py, and the helpers and pages of    *)
(* app.py (bit statistics, byte packing, UUID derivation, session key).     *)
(*                                                                          *)
(* A bitstring is a sequence of the one-character strings "0" and "1".      *)
(* A byte string is a sequence of integers in 0..255.                       *)
(* A float that the code computes as a quotient is kept as an exact         *)
(* fraction <<numerator, denominator>>.                                     *)
(***************************************************************************)
EXTENDS Integers, Sequences, FiniteSets, TLC

VARIABLES
    q_pc,        \* position of generate_random_bits: idle, loop, returned, raised
    n_bits,      \* its argument
    remaining,   \* its local 'remaining'
    bits_out,    \* its local 'bits_out': the list of reversed batch outcomes
    invoked,     \* the widths of the circuits handed to sim.run, in order
    reported,    \* the bitstrings the simulator reported, in order
    q_ret,       \* the value it returned
    op,          \* pure-function checks: the function applied ("none" before)
    arg,         \* pure-function checks: its input
    res,         \* pure-function checks: its result
    page,        \* st.session_state.page
    has_key,     \* "qrng_bits" in st.session_state
    qrng_bits,   \* st.session_state.qrng_bits
    view         \* what the last script run rendered

qvars == <<q_pc, n_bits, remaining, bits_out, invoked, reported, q_ret>>
fvars == <<op, arg, res>>
avars == <<page, has_key, qrng_bits, view>>
vars == <<q_pc, n_bits, remaining, bits_out, invoked, reported, q_ret, op, arg, res,
          page, has_key, qrng_bits, view>>

----------------------------------------------------------------------------
(* Bounds of the model. *)

\* Largest n_bits of a direct call of generate_random_bits.
MaxN == 50
\* Largest n_bits of a call of the classical generator.
MaxClassicalBits == 6
\* Bitstrings up to this length are all enumerated as inputs of the helpers.
MaxBitsLen == 9

----------------------------------------------------------------------------
(* Program constants. *)

BATCH_QUBITS == 24

----------------------------------------------------------------------------
(* Sequence helpers: Python's min, [::-1], "".join and [:n]. *)

Min(a, b) == IF a <= b THEN a ELSE b

\* A faulty variant of the reversal: the outcome is appended as reported.
NotReversed(s) == s
\* bitstring[::-1]
Reverse(s) == [i \in 1..Len(s) |-> s[Len(s) + 1 - i]]

RECURSIVE Join(_)
Join(parts) ==
    IF parts = <<>> THEN <<>>
    ELSE Head(parts) \o Join(Tail(parts))

Take(s, n) == SubSeq(s, 1, Min(n, Len(s)))

RECURSIVE SumSeq(_)
SumSeq(s) == IF s = <<>> THEN 0 ELSE Head(s) + SumSeq(Tail(s))

----------------------------------------------------------------------------
(* qrng.py: generate_random_bits *)

\* The bitstring the simulator reports for a circuit of w qubits measured
\* once: one key of get_counts(), w characters long.  Two families of
\* outcomes are drawn: a single leading one, and alternating bits.
LeadOne(w) == [i \in 1..w |-> IF i = 1 THEN "1" ELSE "0"]
AltOne(w) == [i \in 1..w |-> IF i % 2 = 1 THEN "1" ELSE "0"]
SimOutcomes(w) == {LeadOne(w), AltOne(w)}

\* A faulty variant of the loop condition: while remaining > 1.
LoopContinuesOffByOne(r) == r > 1
\* while remaining > 0
LoopContinues(r) == r > 0

\* A faulty variant of the chunk: always a full batch.
ChunkNoMin(r) == BATCH_QUBITS
\* chunk = min(_BATCH_QUBITS, remaining)
Chunk(r) == Min(BATCH_QUBITS, r)

\* return "".join(bits_out)[:n_bits]
ReturnValue(parts, n) == Take(Join(parts), n)

\* The locals at the top of the function body.
Enter(n) ==
    /\ q_pc' = "loop"
    /\ n_bits' = n
    /\ remaining' = n
    /\ bits_out' = <<>>
    /\ invoked' = <<>>
    /\ reported' = <<>>
    /\ q_ret' = <<>>

\* One iteration of the loop in which transpile, sim.run and job.result
\* succeed: the outcome is reversed and appended, remaining decremented.
BatchOk ==
    /\ q_pc = "loop"
    /\ LoopContinues(remaining)
    /\ \E bitstring \in SimOutcomes(Chunk(remaining)) :
          /\ reported' = Append(reported, bitstring)
          /\ bits_out' = Append(bits_out, Reverse(bitstring))
    /\ invoked' = Append(invoked, Chunk(remaining))
    /\ remaining' = remaining - Chunk(remaining)
    /\ UNCHANGED <<q_pc, n_bits, q_ret>>

\* A faulty variant of the failing iteration: the exception is swallowed
\* and what was accumulated is returned.
BatchFailPartial ==
    /\ q_pc = "loop"
    /\ LoopContinues(remaining)
    /\ invoked' = Append(invoked, Chunk(remaining))
    /\ q_pc' = "returned"
    /\ q_ret' = ReturnValue(bits_out, n_bits)
    /\ UNCHANGED <<n_bits, remaining, bits_out, reported>>

\* One iteration of the loop in which the simulator raises: nothing in the
\* function catches it, so the call ends with the exception.
BatchFail ==
    /\ q_pc = "loop"
    /\ LoopContinues(remaining)
    /\ invoked' = Append(invoked, Chunk(remaining))
    /\ q_pc' = "raised"
    /\ UNCHANGED <<n_bits, remaining, bits_out, reported, q_ret>>

\* The loop condition is false: the function returns.
Return ==
    /\ q_pc = "loop"
    /\ ~LoopContinues(remaining)
    /\ q_pc' = "returned"
    /\ q_ret' = ReturnValue(bits_out, n_bits)
    /\ UNCHANGED <<n_bits, remaining, bits_out, invoked, reported>>

----------------------------------------------------------------------------
(* Python integers.  An int is unbounded, so an int that may exceed 31    *)
(* bits is kept as its binary digits, most significant first, with no     *)
(* leading zero; zero is the empty sequence.                              *)

Zeros(k) == [i \in 1..k |-> "0"]

\* The digits from the first "1" on.
StripZeros(digits) ==
    LET set == {i \in 1..Len(digits) : digits[i] = "1"}
    IN  IF set = {} THEN <<>>
        ELSE SubSeq(digits, CHOOSE i \in set : \A j \in set : i <= j, Len(digits))

\* The value of at most 8 binary digits, as a number.
RECURSIVE ByteVal(_)
ByteVal(digits) ==
    IF digits = <<>> THEN 0
    ELSE 2 * ByteVal(SubSeq(digits, 1, Len(digits) - 1))
         + (IF digits[Len(digits)] = "1" THEN 1 ELSE 0)

\* The 8 binary digits of a byte.
ByteDigits(b) ==
    [i \in 1..8 |-> IF (b \div (2 ^ (8 - i))) % 2 = 1 THEN "1" ELSE "0"]

RECURSIVE BytesToBits(_)
BytesToBits(bytes) ==
    IF bytes = <<>> THEN <<>>
    ELSE ByteDigits(Head(bytes)) \o BytesToBits(Tail(bytes))

Ok(v) == [err |-> "none", val |-> v]
Raise(e) == [err |-> e, val |-> <<>>]

\* int(bits, 2): the empty string is no numeral.
PyIntBase2(bits) ==
    IF bits = <<>> THEN Raise("ValueError") ELSE Ok(StripZeros(bits))

\* A faulty variant of the byte order: int.to_bytes(length, "little").
ToBytesLittle(n, length) ==
    IF Len(n) > 8 * length THEN Raise("OverflowError")
    ELSE LET padded == Zeros(8 * length - Len(n)) \o n
         IN  Ok([i \in 1..length |->
                    ByteVal(SubSeq(padded, 8 * (length - i) + 1, 8 * (length - i) + 8))])
\* int.to_bytes(length, "big"): OverflowError when the int needs more bytes.
ToBytesBig(n, length) ==
    IF Len(n) > 8 * length THEN Raise("OverflowError")
    ELSE LET padded == Zeros(8 * length - Len(n)) \o n
         IN  Ok([i \in 1..length |->
                    ByteVal(SubSeq(padded, 8 * (i - 1) + 1, 8 * i))])

\* int.from_bytes(bytes, "big")
FromBytesBig(bytes) == StripZeros(BytesToBits(bytes))

----------------------------------------------------------------------------
(* app.py: helpers *)

Count(bits, c) == Cardinality({i \in 1..Len(bits) : bits[i] = c})

\* frequency_test
frequency_test(bits) == <<Count(bits, "0"), Count(bits, "1")>>

\* entropy: 0.0 for the empty string (no term); otherwise the sum, over
\* the counts that are not zero, of -p*log2(p) with p = c/total.  The
\* logarithm is not computed: the result is kept as the p of each term.
entropy(bits) ==
    IF bits = <<>> THEN <<>>
    ELSE LET total == Len(bits)
             c0 == Count(bits, "0")
             c1 == Count(bits, "1")
         IN  (IF c0 # 0 THEN <<<<c0, total>>>> ELSE <<>>)
             \o (IF c1 # 0 THEN <<<<c1, total>>>> ELSE <<>>)

\* The increments the loop of runs_test makes over the indexes lo..hi
\* (from 0): those of the first half of the range and those of the second.
RECURSIVE RunsLoop(_, _, _)
RunsLoop(bits, lo, hi) ==
    IF lo > hi THEN 0
    ELSE IF lo = hi THEN (IF bits[lo + 1] # bits[lo] THEN 1 ELSE 0)
    ELSE LET mid == (lo + hi) \div 2
         IN  RunsLoop(bits, lo, mid) + RunsLoop(bits, mid + 1, hi)

\* A faulty variant of runs_test: runs = 0 before the loop.
runs_test_from_zero(bits) ==
    IF bits = <<>> THEN <<0, <<0, 1>>>>
    ELSE <<0 + RunsLoop(bits, 1, Len(bits) - 1), <<2 * Len(bits) - 1, 3>>>>
\* runs_test: (0, 0.0) for the empty string, else runs = 1 plus the loop's
\* increments, and (2*len(bits)-1)/3.
runs_test(bits) ==
    IF bits = <<>> THEN <<0, <<0, 1>>>>
    ELSE <<1 + RunsLoop(bits, 1, Len(bits) - 1), <<2 * Len(bits) - 1, 3>>>>

\* Fractions <<numerator, denominator>>, denominator positive.
FracSub(a, b) == <<a[1] * b[2] - b[1] * a[2], a[2] * b[2]>>
FracAdd(a, b) == <<a[1] * b[2] + b[1] * a[2], a[2] * b[2]>>
FracMul(a, b) == <<a[1] * b[1], a[2] * b[2]>>
FracDiv(a, b) == <<a[1] * b[2], a[2] * b[1]>>
FracIsZero(a) == a[1] = 0

\* A faulty variant of the expected count: total for each category.
ExpectedCountWhole(total) == <<total, 1>>
\* f_exp of chi_square_01: total/2 for each category.
ExpectedCount(total) == <<total, 2>>

\* scipy.stats.chisquare on two categories: the statistic is the sum of
\* (observed - expected)^2 / expected; the p-value is the survival function
\* of the chi-square distribution with one degree of freedom, which is 1.0
\* at 0 and below 1.0 above 0.
chisquare(f_obs, f_exp) ==
    LET term(i) == LET d == FracSub(<<f_obs[i], 1>>, f_exp[i])
                   IN  FracDiv(FracMul(d, d), f_exp[i])
        chi2 == FracAdd(term(1), term(2))
    IN  <<chi2, IF FracIsZero(chi2) THEN "1.0" ELSE "below 1.0">>

\* chi_square_01
chi_square_01(bits) ==
    LET fr == frequency_test(bits)
        total == Len(bits)
    IN  IF total = 0 THEN <<<<0, 1>>, "1.0">>
        ELSE chisquare(fr, <<ExpectedCount(total), ExpectedCount(total)>>)

\* A faulty variant of the byte count: len(bits)//8.
PackLengthFloor(bits) == Len(bits) \div 8
\* (len(bits) + 7)//8
PackLength(bits) == (Len(bits) + 7) \div 8

\* bits_to_bytes
bits_to_bytes(bits) ==
    IF bits = <<>> THEN Ok(<<>>)
    ELSE ToBytesBig(PyIntBase2(bits).val, PackLength(bits))

----------------------------------------------------------------------------
(* app.py: the Real-World page's UUID derivation *)

RECURSIVE BitAnd(_, _)
BitAnd(a, b) ==
    IF a = 0 \/ b = 0 THEN 0
    ELSE (a % 2) * (b % 2) + 2 * BitAnd(a \div 2, b \div 2)

RECURSIVE BitOr(_, _)
BitOr(a, b) ==
    IF a = 0 THEN b
    ELSE IF b = 0 THEN a
    ELSE (IF a % 2 = 1 \/ b % 2 = 1 THEN 1 ELSE 0) + 2 * BitOr(a \div 2, b \div 2)

\* A faulty variant of the version byte: bb[6] | 0x40, with no mask.
SetVersionNoMask(x) == BitOr(x, 64)
\* bb[6] = (bb[6] & 0x0F) | 0x40
SetVersion(x) == BitOr(BitAnd(x, 15), 64)

\* bb[8] = (bb[8] & 0x3F) | 0x80
SetVariant(x) == BitOr(BitAnd(x, 63), 128)

HexChars ==
    <<"0", "1", "2", "3", "4", "5", "6", "7",
      "8", "9", "a", "b", "c", "d", "e", "f">>

\* The 32 hex digits of a UUID made of 16 bytes.
RECURSIVE UuidHex(_)
UuidHex(bytes) ==
    IF bytes = <<>> THEN <<>>
    ELSE <<HexChars[(Head(bytes) \div 16) + 1], HexChars[(Head(bytes) % 16) + 1]>>
         \o UuidHex(Tail(bytes))

\* str(uuid.UUID): the hex digits in groups of 8, 4, 4, 4 and 12.
UuidStr(hex) ==
    SubSeq(hex, 1, 8) \o <<"-">> \o SubSeq(hex, 9, 12) \o <<"-">>
    \o SubSeq(hex, 13, 16) \o <<"-">> \o SubSeq(hex, 17, 20) \o <<"-">>
    \o SubSeq(hex, 21, 32)

\* The body of the "Make UUID" button for the packed key b: the bytes of
\* the UUID and its string, or the exception Python raises on a bytearray
\* that is too short (an index out of range, or UUID's length check).
MakeUuid(b) ==
    LET bb == Take(b, 16)
    IN  IF Len(bb) <= 6 THEN Raise("IndexError")
        ELSE IF Len(bb) <= 8 THEN Raise("IndexError")
        ELSE LET b6 == [bb EXCEPT ![7] = SetVersion(bb[7])]
                 b8 == [b6 EXCEPT ![9] = SetVariant(b6[9])]
             IN  IF Len(b8) # 16 THEN Raise("ValueError")
                 ELSE Ok(<<b8, UuidStr(UuidHex(b8))>>)

----------------------------------------------------------------------------
(* classical_rng.py: generate_random_bits *)

\* All bitstrings of length k.
RECURSIVE BitStrings(_)
BitStrings(k) ==
    IF k = 0 THEN {<<>>}
    ELSE {<<c>> \o s : c \in {"0", "1"}, s \in BitStrings(k - 1)}

\* secrets.randbits(k): an int below 2^k; every one of them for a small k,
\* and 0, 1 and 2^k - 1 beyond.
randbits(k) ==
    IF k <= MaxClassicalBits THEN {StripZeros(s) : s \in BitStrings(k)}
    ELSE {<<>>, <<"1">>, [i \in 1..k |-> "1"]}

\* format(value, "0{width}b"): the binary digits of the value ("0" for
\* zero), padded with "0" on the left up to the width and never cut.
FormatBinary(value, width) ==
    LET digits == IF value = <<>> THEN <<"0">> ELSE value
    IN  IF Len(digits) >= width THEN digits
        ELSE Zeros(width - Len(digits)) \o digits

\* classical_rng.generate_random_bits, for the value randbits draws
crng_bits(n, value) == FormatBinary(value, n)

\* A direct call generate_random_bits(n), as compare.py makes.
Call ==
    /\ q_pc # "loop"
    /\ \E n \in 0..MaxN : Enter(n)
    /\ UNCHANGED <<fvars, avars>>

----------------------------------------------------------------------------
(* app.py: hex, base64 and HMAC of the packed key *)

\* bytes.hex()
BytesHex(bytes) == UuidHex(bytes)

Base64UrlChars ==
    <<"A", "B", "C", "D", "E", "F", "G", "H", "I", "J", "K", "L", "M",
      "N", "O", "P", "Q", "R", "S", "T", "U", "V", "W", "X", "Y", "Z",
      "a", "b", "c", "d", "e", "f", "g", "h", "i", "j", "k", "l", "m",
      "n", "o", "p", "q", "r", "s", "t", "u", "v", "w", "x", "y", "z",
      "0", "1", "2", "3", "4", "5", "6", "7", "8", "9", "-", "_">>

\* base64.urlsafe_b64encode(b).decode(): one character per 6 bits of the
\* bytes, the last group filled with zero bits, then "=" up to a multiple
\* of 4 characters.
Base64Url(bytes) ==
    LET bits == BytesToBits(bytes)
        groups == (Len(bits) + 5) \div 6
        padded == bits \o Zeros(6 * groups - Len(bits))
        chars == [g \in 1..groups |->
                     Base64UrlChars[ByteVal(SubSeq(padded, 6 * g - 5, 6 * g)) + 1]]
    IN  chars \o [i \in 1..((4 - (groups % 4)) % 4) |-> "="]

\* .rstrip("="): "=" occurs in an encoding only as its trailing padding.
RStripEquals(str) == SelectSeq(str, LAMBDA c : c # "=")

\* hmac.new(b, msg.encode(), hashlib.sha256).hexdigest(): SHA-256 is not
\* computed; the digest is kept as the key and the message it is made of.
HmacSha256(key, msg) == <<"hmac-sha256", key, msg>>

\* The contents of the Real-World page's "Message" text input.
Messages == {"QuantumSecuredMessage", ""}

\* example_circuit(n): the width of the circuit it returns.
example_circuit(n) ==
    LET capped == Min(n, BATCH_QUBITS)
    IN  IF capped >= 1 THEN capped ELSE 1

\* The values of the qubit sliders of the Theory and Simulator pages.
SliderValues == 3..12

----------------------------------------------------------------------------
(* app.py: the pages, one script run per click *)

PAGES ==
    {"Home", "Theory", "Simulator", "Generator", "Compare", "Tests",
     "Real-World", "FAQ", "Contact"}

\* The choices of the Generator page's key-size radio.
KeySizes == {16, 32, 64, 128}

\* "qrng_bits" in st.session_state and st.session_state.qrng_bits
KeyPresent == has_key /\ qrng_bits # <<>>

\* A faulty variant of the length guard: if nbits < 64.
UuidTooShortBelow64(nbits) == nbits < 64
\* if nbits < 128: warn, else offer the UUID button
UuidTooShort(nbits) == nbits < 128

\* What a script run renders; a run that renders none of these shows this.
BlankView ==
    [warning |-> "none", exception |-> FALSE, success |-> FALSE,
     encoded |-> <<>>, stats |-> <<>>,
     uuid_warning |-> FALSE, uuid_button |-> FALSE, uuid |-> <<>>,
     token |-> <<>>, hmac |-> <<>>, circuit |-> 0]

\* The Generator page below its button, for the session key bits.
GeneratorBody(present, bits) ==
    IF present
    THEN [BlankView EXCEPT !.encoded =
             <<PyIntBase2(bits), bits_to_bytes(bits),
               BytesHex(bits_to_bytes(bits).val),
               Base64Url(bits_to_bytes(bits).val)>>]
    ELSE BlankView

\* q0/len(q_bits)*100
Percent(count, length) == FracMul(<<count, length>>, <<100, 1>>)

\* The Compare page, for the classical bits c_bits it drew.
CompareBody(present, q_bits, c_bits) ==
    IF ~present THEN [BlankView EXCEPT !.warning = "generate_first"]
    ELSE LET q == frequency_test(q_bits)
             c == frequency_test(c_bits)
         IN  [BlankView EXCEPT !.stats =
                 <<q, c, chi_square_01(q_bits), chi_square_01(c_bits),
                   Percent(q[1], Len(q_bits)), Percent(q[2], Len(q_bits)),
                   Percent(c[1], Len(c_bits)), Percent(c[2], Len(c_bits)),
                   entropy(q_bits), entropy(c_bits)>>]

\* The Tests page.
TestsBody(present, bits) ==
    IF ~present THEN [BlankView EXCEPT !.warning = "generate_first"]
    ELSE [BlankView EXCEPT !.stats =
             <<frequency_test(bits), runs_test(bits), chi_square_01(bits),
               <<Len(bits), 2>>, entropy(bits)>>]

\* The Real-World page with none of its buttons pressed.
RealWorldBody(present, bits) ==
    IF ~present THEN [BlankView EXCEPT !.warning = "generate_first"]
    ELSE [BlankView EXCEPT
             !.encoded = <<bits_to_bytes(bits)>>,
             !.uuid_warning = UuidTooShort(Len(bits)),
             !.uuid_button = ~UuidTooShort(Len(bits))]

\* The views a run of page p may render with no button of the page pressed.
PageViews(p) ==
    IF p = "Generator" THEN {GeneratorBody(KeyPresent, qrng_bits)}
    ELSE IF p = "Compare" THEN
        IF KeyPresent
        THEN {CompareBody(TRUE, qrng_bits, crng_bits(Len(qrng_bits), value)) :
                 value \in randbits(Len(qrng_bits))}
        ELSE {CompareBody(FALSE, <<>>, <<>>)}
    ELSE IF p = "Tests" THEN {TestsBody(KeyPresent, qrng_bits)}
    ELSE IF p = "Real-World" THEN {RealWorldBody(KeyPresent, qrng_bits)}
    ELSE IF p = "Simulator" THEN
        IF KeyPresent
        THEN {[BlankView EXCEPT !.circuit = example_circuit(Len(qrng_bits))]}
        ELSE {[BlankView EXCEPT !.circuit = example_circuit(nq)] :
                 nq \in SliderValues}
    ELSE IF p = "Theory" THEN
        {[BlankView EXCEPT !.circuit = example_circuit(nq)] : nq \in SliderValues}
    ELSE {BlankView}

QIdle ==
    /\ q_pc' = "idle"
    /\ n_bits' = 0
    /\ remaining' = 0
    /\ bits_out' = <<>>
    /\ invoked' = <<>>
    /\ reported' = <<>>
    /\ q_ret' = <<>>

\* A click on a navigation button: the page is stored and rendered.
Nav ==
    /\ q_pc = "idle"
    /\ \E p \in PAGES :
          /\ page' = p
          /\ view' \in PageViews(p)
    /\ UNCHANGED <<has_key, qrng_bits, qvars, fvars>>

\* A click on "Generate": the run calls qrng_bits(key_size).
ClickGenerate ==
    /\ q_pc = "idle"
    /\ page = "Generator"
    /\ \E key_size \in KeySizes : Enter(key_size)
    /\ UNCHANGED <<avars, fvars>>

\* qrng_bits returned: the key is stored in the session and the page shows
\* it.
GenerateStored ==
    /\ q_pc = "returned"
    /\ has_key' = TRUE
    /\ qrng_bits' = q_ret
    /\ view' = [GeneratorBody(q_ret # <<>>, q_ret) EXCEPT !.success = TRUE]
    /\ QIdle
    /\ UNCHANGED <<page, fvars>>

\* A faulty variant of the failing generation: what was accumulated is
\* stored as the key.
GenerateRaisedStoresPartial ==
    /\ q_pc = "raised"
    /\ has_key' = TRUE
    /\ qrng_bits' = Join(bits_out)
    /\ view' = [BlankView EXCEPT !.exception = TRUE]
    /\ QIdle
    /\ UNCHANGED <<page, fvars>>

\* qrng_bits raised: the run ends there and shows the exception.
GenerateRaised ==
    /\ q_pc = "raised"
    /\ view' = [BlankView EXCEPT !.exception = TRUE]
    /\ QIdle
    /\ UNCHANGED <<page, has_key, qrng_bits, fvars>>

\* A click on "Make UUID from Current Key", offered when the key is long
\* enough.
ClickMakeUuid ==
    /\ q_pc = "idle"
    /\ page = "Real-World"
    /\ KeyPresent
    /\ ~UuidTooShort(Len(qrng_bits))
    /\ LET made == MakeUuid(bits_to_bytes(qrng_bits).val)
           body == RealWorldBody(TRUE, qrng_bits)
       IN  view' = IF made.err = "none"
                   THEN [body EXCEPT !.uuid = made.val[2]]
                   ELSE [body EXCEPT !.exception = TRUE]
    /\ UNCHANGED <<page, has_key, qrng_bits, qvars, fvars>>

\* A move of the qubit slider of the Theory or the Simulator page: the
\* page is rendered again.  The slider's value is not kept between runs: a
\* run may draw the circuit for any of its values.
MoveSlider ==
    /\ q_pc = "idle"
    /\ page \in {"Theory", "Simulator"}
    /\ view' \in PageViews(page)
    /\ UNCHANGED <<page, has_key, qrng_bits, qvars, fvars>>

\* A click on "Make Token from Current Key".
ClickMakeToken ==
    /\ q_pc = "idle"
    /\ page = "Real-World"
    /\ KeyPresent
    /\ view' = [RealWorldBody(TRUE, qrng_bits) EXCEPT
                   !.token = RStripEquals(Base64Url(bits_to_bytes(qrng_bits).val))]
    /\ UNCHANGED <<page, has_key, qrng_bits, qvars, fvars>>

\* A click on "Generate HMAC", for the message in the text input.
ClickHmac ==
    /\ q_pc = "idle"
    /\ page = "Real-World"
    /\ KeyPresent
    /\ \E msg \in Messages :
          view' = [RealWorldBody(TRUE, qrng_bits) EXCEPT
                      !.hmac = HmacSha256(bits_to_bytes(qrng_bits).val, msg)]
    /\ UNCHANGED <<page, has_key, qrng_bits, qvars, fvars>>

----------------------------------------------------------------------------
(* The helpers applied to enumerated inputs. *)

\* Sample bytes from which the longer inputs are built.
SampleBytes == {0, 1, 128, 165, 255}

\* Every bitstring of at most MaxBitsLen bits, and two- and three-byte
\* strings of whole bytes.
BitInputs ==
    UNION {BitStrings(k) : k \in 0..MaxBitsLen}
    \cup {BytesToBits(<<a, b>>) : a \in SampleBytes, b \in SampleBytes}
    \cup {BytesToBits(<<a, b, a>>) : a \in SampleBytes, b \in SampleBytes}

Apply(name, value) ==
    /\ op = "none"
    /\ op' = name
    /\ res' = value
    /\ UNCHANGED <<arg, qvars, avars>>

ApplyPack == Apply("bits_to_bytes", bits_to_bytes(arg))
ApplyInt == Apply("int", PyIntBase2(arg))
ApplyFrequency == Apply("frequency_test", Ok(frequency_test(arg)))
ApplyRuns == Apply("runs_test", Ok(runs_test(arg)))
ApplyChiSquare == Apply("chi_square_01", Ok(chi_square_01(arg)))

\* classical_rng.generate_random_bits(arg), with the value randbits drew.
ApplyClassical ==
    \E value \in randbits(arg) : Apply("crng_bits", Ok(crng_bits(arg, value)))

\* 16-byte inputs of the UUID derivation: bytes 6 and 8 take every value,
\* one of them at a time, and the other bytes are a sample byte.
KeyBytes(fill, x, y) ==
    [i \in 1..16 |-> IF i = 7 THEN x ELSE IF i = 9 THEN y ELSE fill]

UuidInputs ==
    {KeyBytes(fill, x, y) : fill \in SampleBytes, x \in 0..255, y \in SampleBytes}
    \cup {KeyBytes(fill, x, y) : fill \in SampleBytes, x \in SampleBytes, y \in 0..255}

ApplyUuid == Apply("uuid", MakeUuid(arg))

QInit ==
    /\ q_pc = "idle"
    /\ n_bits = 0
    /\ remaining = 0
    /\ bits_out = <<>>
    /\ invoked = <<>>
    /\ reported = <<>>
    /\ q_ret = <<>>

FInit ==
    /\ op = "none"
    /\ arg = <<>>
    /\ res = <<>>

AInit ==
    /\ page = "Home"
    /\ has_key = FALSE
    /\ qrng_bits = <<>>
    /\ view = BlankView

InitQ == QInit /\ FInit /\ AInit

NextQ ==
    \/ Call
    \/ BatchOk /\ UNCHANGED <<fvars, avars>>
    \/ BatchFail /\ UNCHANGED <<fvars, avars>>
    \/ Return /\ UNCHANGED <<fvars, avars>>

SpecQ == InitQ /\ [][NextQ]_vars

----------------------------------------------------------------------------
(* The specifications of the helpers. *)

InitBits == QInit /\ AInit /\ op = "none" /\ res = <<>> /\ arg \in BitInputs

NextBits ==
    \/ ApplyPack
    \/ ApplyInt
    \/ ApplyFrequency
    \/ ApplyRuns
    \/ ApplyChiSquare

SpecBits == InitBits /\ [][NextBits]_vars

InitC ==
    QInit /\ AInit /\ op = "none" /\ res = <<>> /\ arg \in 0..MaxClassicalBits

NextC == ApplyClassical

SpecC == InitC /\ [][NextC]_vars

InitUuid == QInit /\ AInit /\ op = "none" /\ res = <<>> /\ arg \in UuidInputs

NextUuid == ApplyUuid

SpecUuid == InitUuid /\ [][NextUuid]_vars

----------------------------------------------------------------------------
(* The application: a session of clicks. *)

Init == QInit /\ FInit /\ AInit

Next ==
    \/ Nav
    \/ ClickGenerate
    \/ BatchOk /\ UNCHANGED <<fvars, avars>>
    \/ BatchFail /\ UNCHANGED <<fvars, avars>>
    \/ Return /\ UNCHANGED <<fvars, avars>>
    \/ GenerateStored
    \/ GenerateRaised
    \/ ClickMakeUuid
    \/ ClickMakeToken
    \/ ClickHmac
    \/ MoveSlider

Spec == Init /\ [][Next]_vars

----------------------------------------------------------------------------
(* Claims about generate_random_bits of qrng.py, under SpecQ. *)

IsBitstring(s) == \A i \in 1..Len(s) : s[i] \in {"0", "1"}

\* C1: a call generate_random_bits(n) that returns, every simulator
\* invocation having reported a chunk-length outcome, returns a bitstring
\* of exactly n characters, for every n >= 0.
C1_QuantumLength ==
    q_pc = "returned" => (Len(q_ret) = n_bits /\ IsBitstring(q_ret))

\* A call whose length is above 24 and no multiple of 24 has returned.
C1_Witness ==
    /\ q_pc = "returned"
    /\ n_bits > 24
    /\ n_bits % 24 # 0
    /\ Len(q_ret) = n_bits

\* C3: every circuit handed to the simulator has width min(24, remaining),
\* which lies in 1..24; remaining never becomes negative; and the widths of
\* a call that returns sum to n.
C3_ChunkWidths ==
    /\ remaining >= 0
    /\ \A i \in 1..Len(invoked) :
          /\ invoked[i] = Min(24, n_bits - SumSeq(SubSeq(invoked, 1, i - 1)))
          /\ invoked[i] >= 1
          /\ invoked[i] <= 24
    /\ (q_pc = "loop" => remaining = n_bits - SumSeq(invoked))
    /\ (q_pc = "returned" => SumSeq(invoked) = n_bits)

\* A call of three batches, the last one narrower than 24, has returned.
C3_Witness ==
    /\ q_pc = "returned"
    /\ Len(invoked) = 3
    /\ invoked[1] = 24
    /\ invoked[3] < 24
    /\ SumSeq(invoked) = n_bits

\* C11: each batch's reported outcome is reversed before it is appended and
\* batches are appended in the order they ran, one completing before the
\* next begins: the character at output position 24*k + i (from 0) of the
\* k-th batch (from 0), of width w, is the character at position w-1-i of
\* that batch's reported outcome.
C11_ReversedInOrder ==
    /\ Len(bits_out) = Len(reported)
    /\ (q_pc = "loop" => Len(invoked) = Len(reported))
    /\ \A k \in 1..Len(reported) :
          /\ Len(reported[k]) = invoked[k]
          /\ Len(bits_out[k]) = invoked[k]
          /\ \A i \in 0..(invoked[k] - 1) :
                bits_out[k][i + 1] = reported[k][invoked[k] - i]
    /\ (q_pc = "returned" =>
          /\ Len(q_ret) = SumSeq(invoked)
          /\ \A k \in 1..Len(reported) :
                \A i \in 0..(invoked[k] - 1) :
                   q_ret[24 * (k - 1) + i + 1] = reported[k][invoked[k] - i])

\* A call of three batches returned: the first reported a single leading
\* one, which is the last bit of the first 24, and the second reported
\* alternating bits starting with a one, which end the second 24.
C11_Witness ==
    /\ q_pc = "returned"
    /\ Len(reported) = 3
    /\ reported[1] = LeadOne(24)
    /\ reported[2] = AltOne(24)
    /\ q_ret[1] = "0"
    /\ q_ret[24] = "1"
    /\ q_ret[25] = "0"
    /\ q_ret[48] = "1"

----------------------------------------------------------------------------
(* Claims about classical_rng.py, under SpecC. *)

\* C2: classical generate_random_bits(n) returns exactly n characters, each
\* "0" or "1", for every n >= 0.
C2_ClassicalLength ==
    op = "crng_bits" => (Len(res.val) = arg /\ IsBitstring(res.val))

----------------------------------------------------------------------------
(* Claims about the helpers of app.py, under SpecBits. *)

\* The least k with 8k >= n.
CeilDiv8(n) == CHOOSE k \in 0..n : 8 * k >= n /\ 8 * k < n + 8

\* C7: bits_to_bytes(bits) is ceil(len(bits)/8) bytes, empty for the empty
\* bitstring, and read most significant bit first the bytes are
\* 8*ceil(len/8) - len zero bits followed by the bits of the input.
C7_PackLayout ==
    op = "bits_to_bytes" =>
        LET n == Len(arg)
            k == CeilDiv8(n)
        IN  /\ res.err = "none"
            /\ Len(res.val) = k
            /\ \A i \in 1..Len(res.val) : res.val[i] \in 0..255
            /\ (n = 0 => res.val = <<>>)
            /\ BytesToBits(res.val) = Zeros(8 * k - n) \o arg

\* A nine-bit input that starts with a zero bit was packed into two bytes.
C7_Witness ==
    /\ op = "bits_to_bytes"
    /\ Len(arg) = 9
    /\ arg[1] = "0"
    /\ Len(res.val) = 2

\* C8 as stated: for every bitstring whose length is a multiple of 8, the
\* empty one included, int(bits, 2) is the big-endian value of
\* bits_to_bytes(bits).
C8_RoundTripAll ==
    (op = "int" /\ Len(arg) % 8 = 0) =>
        /\ res.err = "none"
        /\ res.val = FromBytesBig(bits_to_bytes(arg).val)

\* C8 as amended: for every non-empty bitstring whose length is a multiple
\* of 8, int(bits, 2) is the big-endian value of bits_to_bytes(bits).
C8_RoundTrip ==
    (op = "int" /\ Len(arg) % 8 = 0 /\ arg # <<>>) =>
        /\ res.err = "none"
        /\ bits_to_bytes(arg).err = "none"
        /\ res.val = FromBytesBig(bits_to_bytes(arg).val)

\* int was applied to a sixteen-bit string whose two bytes differ.
C8_Witness ==
    /\ op = "int"
    /\ Len(arg) = 16
    /\ SubSeq(arg, 1, 8) # SubSeq(arg, 9, 16)
    /\ res.err = "none"

\* The maximal blocks of identical consecutive symbols of a bitstring.
Blocks(bits) ==
    {<<i, j>> \in (1..Len(bits)) \X (1..Len(bits)) :
        /\ i <= j
        /\ \A m \in i..j : bits[m] = bits[i]
        /\ (i = 1 \/ bits[i - 1] # bits[i])
        /\ (j = Len(bits) \/ bits[j + 1] # bits[j])}

\* C9: runs_test returns the number of maximal blocks of identical
\* consecutive symbols (0 for the empty string, else 1 plus the number of
\* positions that differ from their predecessor) and the expected count
\* (2n-1)/3, 0.0 for the empty string.
C9_Runs ==
    op = "runs_test" =>
        LET n == Len(arg)
            observed == res.val[1]
            expected == res.val[2]
        IN  /\ observed = Cardinality(Blocks(arg))
            /\ expected[2] > 0
            /\ (n = 0 => (observed = 0 /\ expected[1] = 0))
            /\ (n > 0 =>
                  /\ observed =
                        1 + Cardinality({i \in 2..n : arg[i] # arg[i - 1]})
                  /\ 3 * expected[1] = (2 * n - 1) * expected[2])
            /\ ((n > 0 /\ \A i \in 1..n : arg[i] = arg[1]) => observed = 1)
            /\ ((\A i \in 2..n : arg[i] # arg[i - 1]) => observed = n)

\* runs_test("000111") returned 2 runs and 11/3 expected.
C9_Witness ==
    /\ op = "runs_test"
    /\ arg = <<"0", "0", "0", "1", "1", "1">>
    /\ res.val = <<2, <<11, 3>>>>

\* C10: chi_square_01 returns (0.0, 1.0) for the empty bitstring with no
\* division by zero; otherwise the statistic is (zeros - ones)^2 / n, which
\* is 0.0 with p-value 1.0 exactly when zeros = ones and positive otherwise.
C10_ChiSquare ==
    op = "chi_square_01" =>
        LET n == Len(arg)
            zeros == Count(arg, "0")
            ones == Count(arg, "1")
            chi2 == res.val[1]
            p == res.val[2]
        IN  /\ zeros + ones = n
            /\ chi2[2] > 0
            /\ (n = 0 => (chi2[1] = 0 /\ p = "1.0"))
            /\ (n > 0 =>
                  /\ chi2[1] * n = (zeros - ones) * (zeros - ones) * chi2[2]
                  /\ (zeros = ones <=> (chi2[1] = 0 /\ p = "1.0"))
                  /\ (zeros # ones => (chi2[1] > 0 /\ p # "1.0")))

\* chi_square_01 was applied to an unbalanced string of odd length.
C10_Witness ==
    /\ op = "chi_square_01"
    /\ Len(arg) = 7
    /\ Count(arg, "0") = 5
    /\ res.val[1][1] > 0

----------------------------------------------------------------------------
(* Claims about the UUID derivation, under SpecUuid. *)

HexDigitsOf(str) == SelectSeq(str, LAMBDA c : c # "-")

\* C5: for every 16-byte input the UUID's 13th hex digit is "4" and its
\* 17th is one of 8, 9, a, b: the high nibble of byte 6 is 0100 and the top
\* two bits of byte 8 are 10 whatever the input, and every other bit is as
\* supplied.
C5_UuidVersionVariant ==
    op = "uuid" =>
        /\ res.err = "none"
        /\ LET bytes == res.val[1]
               hex == HexDigitsOf(res.val[2])
           IN  /\ Len(hex) = 32
               /\ hex[13] = "4"
               /\ hex[17] \in {"8", "9", "a", "b"}
               /\ hex = UuidHex(bytes)
               /\ Len(bytes) = 16
               /\ bytes[7] \div 16 = 4
               /\ bytes[7] % 16 = arg[7] % 16
               /\ bytes[9] \div 64 = 2
               /\ bytes[9] % 64 = arg[9] % 64
               /\ \A i \in (1..16) \ {7, 9} : bytes[i] = arg[i]

\* A UUID was derived from bytes whose version nibble was 1111 and whose
\* variant bits were 01.
C5_Witness ==
    /\ op = "uuid"
    /\ arg[7] = 255
    /\ arg[9] \div 64 = 1
    /\ res.err = "none"
    /\ res.val[1][7] = 79

----------------------------------------------------------------------------
(* Claims about the application, under Spec. *)

\* C4: generation is all-or-nothing with no retry.  A call that returns
\* returns the full n bits; a call in which a batch failed returns nothing,
\* and its next step hands the failure to the caller, which shows it and
\* leaves the session key as it was: the failed batch is not invoked again
\* and no later batch is invoked.
C4_AllOrNothing ==
    /\ [](q_pc = "returned" => Len(q_ret) = n_bits)
    /\ [](q_pc = "raised" =>
            /\ q_ret = <<>>
            /\ invoked # <<>>
            /\ Len(bits_out) = Len(invoked) - 1)
    /\ [][q_pc = "raised" =>
            /\ q_pc' = "idle"
            /\ invoked' = <<>>
            /\ view'.exception
            /\ ~view'.success
            /\ has_key' = has_key
            /\ qrng_bits' = qrng_bits]_vars
    /\ [][(q_pc = "loop" /\ q_pc' = "loop") =>
            /\ Len(invoked') = Len(invoked) + 1
            /\ Len(bits_out') = Len(invoked')]_vars

\* The third of six batches failed, two batches of bits accumulated and a
\* key of an earlier generation in the session.
C4_Witness ==
    /\ q_pc = "raised"
    /\ n_bits = 128
    /\ Len(invoked) = 3
    /\ Len(bits_out) = 2
    /\ has_key
    /\ qrng_bits # <<>>

\* C6: no UUID is ever produced from fewer than 16 bytes: on the Real-World
\* page a key that packs into fewer than 16 bytes gets the insufficient-
\* length warning and no UUID button, and a UUID that is shown was derived
\* from the 16 bytes of the session key.
C6_UuidNeeds16Bytes ==
    LET b == bits_to_bytes(qrng_bits).val
    IN  /\ (view.uuid # <<>> =>
              /\ page = "Real-World"
              /\ KeyPresent
              /\ Len(b) >= 16
              /\ view.uuid = MakeUuid(b).val[2])
        /\ ((page = "Real-World" /\ KeyPresent /\ Len(b) < 16) =>
              /\ view.uuid_warning
              /\ ~view.uuid_button
              /\ view.uuid = <<>>
              /\ ~view.exception)
        /\ (view.uuid_button => (KeyPresent /\ Len(b) >= 16))

\* The Real-World page showing a 64-bit key, which packs into 8 bytes.
C6_Witness ==
    /\ page = "Real-World"
    /\ KeyPresent
    /\ Len(qrng_bits) = 64
    /\ Len(bits_to_bytes(qrng_bits).val) = 8
    /\ view.uuid_warning

\* The session key is absent, or a bitstring of 16, 32, 64 or 128 bits.
KeyAbsentOrSized ==
    \/ ~has_key /\ qrng_bits = <<>>
    \/ has_key /\ IsBitstring(qrng_bits) /\ Len(qrng_bits) \in {16, 32, 64, 128}

\* The denominators of the quotients by len(bits) among the statistics a
\* page shows: the percentages of the Compare page, n/2 of the Tests page
\* and the p = c/total of every term of an entropy.
StatDivisors(p, stats) ==
    LET terms(e) == {e[i][2] : i \in 1..Len(e)}
    IN  IF p = "Compare"
        THEN {stats[i][2] : i \in 5..8} \cup terms(stats[9]) \cup terms(stats[10])
        ELSE terms(stats[5])

\* The page shows something computed from the key.
ShowsKeyArtifact ==
    \/ view.stats # <<>>
    \/ view.encoded # <<>>
    \/ view.uuid # <<>>
    \/ view.token # <<>>
    \/ view.hmac # <<>>
    \/ view.uuid_button
    \/ view.uuid_warning

\* C12: through any sequence of navigations and button clicks the session
\* key is either absent or a bitstring of 16, 32, 64 or 128 bits; the only
\* step that changes it is the storing of the value a Generate click's
\* generation returned (navigation, the other pages' runs and buttons, and
\* a generation that raised leave it as it was); and statistics and encoded
\* artifacts are shown only while the key is present and non-empty, with no
\* divisor len(bits) equal to 0, the Compare, Tests and Real-World pages
\* showing the generate-first warning and nothing else without a key.
C12_SessionKey ==
    /\ [](/\ KeyAbsentOrSized
          /\ (ShowsKeyArtifact => (has_key /\ Len(qrng_bits) > 0))
          /\ (view.stats # <<>> =>
                /\ page \in {"Compare", "Tests"}
                /\ (page = "Tests" => view.stats[4] = <<Len(qrng_bits), 2>>)
                /\ 0 \notin StatDivisors(page, view.stats))
          /\ ((page \in {"Compare", "Tests", "Real-World"}
                 /\ ~(has_key /\ Len(qrng_bits) > 0)) =>
                /\ view.warning = "generate_first"
                /\ ~ShowsKeyArtifact))
    /\ [][(has_key' # has_key \/ qrng_bits' # qrng_bits) =>
             /\ q_pc = "returned"
             /\ page = "Generator"
             /\ has_key'
             /\ qrng_bits' = q_ret
             /\ view'.success]_vars

\* A generation that raised on the Generator page while a 128-bit key was
\* held: the exception is shown and the key is still there.
C12_Witness ==
    /\ page = "Generator"
    /\ view.exception
    /\ has_key
    /\ Len(qrng_bits) = 128
    /\ q_pc = "idle"

====
